---------------------------- MODULE Spec2Model ----------------------------
(***************************************************************************)
(* Model of the panel-layout configurator (PanelConfigurator.tsx): the     *)
(* three-slot PanelLayout value owned by the host, the configurator's      *)
(* selection state, and the click handlers that compute a new layout and   *)
(* hand it to onChange.  A handler reads the rendered currentLayout and    *)
(* selection; what it hands to onChange and setSelection takes effect at   *)
(* the next render.  The host is the one of the stories: it stores every   *)
(* layout it receives and renders the configurator with it again.          *)
(*                                                                         *)
(* The second half models the three-panel layout controller                *)
(* (ThreePanelLayout): the collapsed, animating and size state of the two  *)
(* outer panels, the pending animation frames of the browser and the       *)
(* layout of the PanelGroup the controller drives.                         *)
(***************************************************************************)
EXTENDS Integers, Sequences, FiniteSets, TLC

(* Number of catalog panels (availablePanels) the model enumerates. *)
NumPanels == 3

(* Catalog ids, named as in the stories. *)
PanelNames ==
    <<"nav", "main", "sidebar", "tools", "properties", "console", "terminal", "output">>

PanelIds == {PanelNames[i] : i \in 1..NumPanels}

(* type SlotPosition = 'left' | 'middle' | 'right' *)
Positions == {"left", "middle", "right"}

(* TabsConfig.tabPosition: the default 'top' and one other of the values of *)
(* the <select> of the configurator.                                       *)
TabPositions == {"top", "bottom"}

(* type PanelGroup['type'] *)
GroupTypes == {"tabs", "tiles"}

VARIABLES
    currentLayout,   \* props.currentLayout, rendered: Positions -> PanelSlot
    selection,       \* useState<Selection>, rendered
    call             \* the handler call not yet rendered: its arguments, the
                     \* layout handed to onChange and the selection it set

vars == <<currentLayout, selection, call>>

-----------------------------------------------------------------------------
(* PanelSlot = string | null | PanelGroup *)

Empty == [kind |-> "empty"]

SinglePanel(id) == [kind |-> "single", id |-> id]

Group(type, panels, config) ==
    [kind |-> "group", type |-> type, panels |-> panels, config |-> config]

(* config: { defaultActiveTab: 0, tabPosition: 'top' } *)
DefaultTabsConfig == [defaultActiveTab |-> 0, tabPosition |-> "top"]

(* Selection = {type:'slot', position} | {type:'panel', id} | null *)
NoSelection == [type |-> "none"]

SlotSelected(position) == [type |-> "slot", position |-> position]

PanelSelected(id) == [type |-> "panel", id |-> id]

(* MultiSelectedPanels: the panels shift-clicked so far, in click order. *)
MultiSelected(ids) == [type |-> "multi", ids |-> ids]

isGroup(slot) == slot.kind = "group"

isTabsGroup(slot) == isGroup(slot) /\ slot.type = "tabs"

Range(s) == {s[i] : i \in 1..Len(s)}

getPanelIdsFromSlot(slot) ==
    IF slot.kind = "empty" THEN <<>>
    ELSE IF slot.kind = "single" THEN <<slot.id>>
    ELSE slot.panels

(* slot.panels.filter(id => id !== panelId) *)
FilterOut(panels, panelId) == SelectSeq(panels, LAMBDA id : id # panelId)

(* removePanelFromSlot with the collapse decided on the length of the      *)
(* group before the filter.                                                *)
removePanelFromSlotStaleLength(slot, panelId) ==
    IF slot.kind = "single" /\ slot.id = panelId THEN Empty
    ELSE IF isGroup(slot) THEN
        LET filteredPanels == FilterOut(slot.panels, panelId)
        IN  IF Len(slot.panels) = 0 THEN Empty
            ELSE IF Len(slot.panels) = 1 THEN SinglePanel(slot.panels[1])
            ELSE [slot EXCEPT !.panels = filteredPanels]
    ELSE slot

(* removePanelFromSlot without the branch for a slot holding the panel as   *)
(* a single panel.                                                         *)
removePanelFromSlotGroupsOnly(slot, panelId) ==
    IF isGroup(slot) THEN
        LET filteredPanels == FilterOut(slot.panels, panelId)
        IN  IF Len(filteredPanels) = 0 THEN Empty
            ELSE IF Len(filteredPanels) = 1 THEN SinglePanel(filteredPanels[1])
            ELSE [slot EXCEPT !.panels = filteredPanels]
    ELSE slot

(* The value a slot takes after one pass of removePanelFromLayout's loop. *)
removePanelFromSlot(slot, panelId) ==
    IF slot.kind = "single" /\ slot.id = panelId THEN Empty
    ELSE IF isGroup(slot) THEN
        LET filteredPanels == FilterOut(slot.panels, panelId)
        IN  IF Len(filteredPanels) = 0 THEN Empty
            ELSE IF Len(filteredPanels) = 1 THEN SinglePanel(filteredPanels[1])
            ELSE [slot EXCEPT !.panels = filteredPanels]
    ELSE slot

removePanelFromLayout(layout, panelId) ==
    [pos \in Positions |-> removePanelFromSlot(layout[pos], panelId)]


-----------------------------------------------------------------------------
(* The pure layout transformations the handlers apply. *)

(* swapSlots without the temporary: the second write reads the slot the    *)
(* first has overwritten.                                                  *)
swapSlotsNoTemp(layout, a, b) ==
    [layout EXCEPT ![a] = layout[b], ![b] = layout[b]]

(* Swap of two slots: temp = l[a]; l[a] = l[b]; l[b] = temp *)
swapSlots(layout, a, b) ==
    [layout EXCEPT ![a] = layout[b], ![b] = layout[a]]

(* assignPanel without the removal of the panel from its prior slot. *)
assignPanelNoRemove(layout, panelId, position) ==
    [layout EXCEPT ![position] = SinglePanel(panelId)]

(* assignPanel with the slot set before the panel is removed. *)
assignPanelRemoveLast(layout, panelId, position) ==
    removePanelFromLayout([layout EXCEPT ![position] = SinglePanel(panelId)], panelId)

(* "Replace slot with panel": removePanelFromLayout, then the slot is set. *)
assignPanel(layout, panelId, position) ==
    [removePanelFromLayout(layout, panelId) EXCEPT ![position] = SinglePanel(panelId)]

(* "If slot is in tab mode, add panel to the tab group": removePanelFromLayout, *)
(* then the append if the slot is still a tabs group.                           *)
addPanelToTabGroup(layout, panelId, position) ==
    LET newLayout == removePanelFromLayout(layout, panelId)
        existingGroup == newLayout[position]
    IN  IF isTabsGroup(existingGroup)
        THEN [newLayout EXCEPT ![position] =
                 [existingGroup EXCEPT !.panels = Append(existingGroup.panels, panelId)]]
        ELSE newLayout

(* removeFromGroupSlot without the collapse of a group of 0 or 1 members. *)
removeFromGroupSlotNoCollapse(slot, panelId) ==
    [slot EXCEPT !.panels = FilterOut(slot.panels, panelId)]

(* The slot a tabs group is left as by removePanelFromTabGroup. *)
removeFromGroupSlot(slot, panelId) ==
    LET filteredPanels == FilterOut(slot.panels, panelId)
    IN  IF Len(filteredPanels) = 0 THEN Empty
        ELSE IF Len(filteredPanels) = 1 THEN SinglePanel(filteredPanels[1])
        ELSE [slot EXCEPT !.panels = filteredPanels]

(* The slot toggleTabMode leaves. *)
toggleSlot(slot) ==
    IF isTabsGroup(slot)
    THEN IF Len(slot.panels) > 0 THEN SinglePanel(slot.panels[1]) ELSE Empty
    ELSE Group("tabs",
               IF slot.kind = "single" THEN <<slot.id>> ELSE <<>>,
               DefaultTabsConfig)

(* { ...(slot.config as TabsConfig), ...config } for config = {tabPosition} *)
mergeTabsConfig(config, partial) ==
    [config EXCEPT !.tabPosition = partial.tabPosition]

-----------------------------------------------------------------------------
(* The handlers.  Each yields the layout handed to onChange (the layout    *)
(* itself when onChange is not called), the next selection and whether     *)
(* onChange was called.                                                    *)

Outcome(layout, sel, emitted) ==
    [layout |-> layout, selection |-> sel, emitted |-> emitted]

(* handleSlotClick without the return for a click on the armed slot: the   *)
(* slot is swapped with itself.                                            *)
handleSlotClickSwapsSameSlot(layout, sel, position) ==
    IF sel.type = "none" THEN
        Outcome(layout, SlotSelected(position), FALSE)
    ELSE IF sel.type = "slot" THEN
        Outcome(swapSlots(layout, sel.position, position), NoSelection, TRUE)
    ELSE
        IF isTabsGroup(layout[position]) THEN
            IF sel.id \in Range(layout[position].panels)
            THEN Outcome(layout, NoSelection, FALSE)
            ELSE Outcome(addPanelToTabGroup(layout, sel.id, position), sel, TRUE)
        ELSE Outcome(assignPanel(layout, sel.id, position), NoSelection, TRUE)

(* handleSlotClick appending the armed panel to a tabs group without the   *)
(* membership check and without removing the panel from the layout first.  *)
handleSlotClickAppendsBlindly(layout, sel, position) ==
    IF sel.type = "none" THEN
        Outcome(layout, SlotSelected(position), FALSE)
    ELSE IF sel.type = "slot" THEN
        IF sel.position = position
        THEN Outcome(layout, sel, FALSE)
        ELSE Outcome(swapSlots(layout, sel.position, position), NoSelection, TRUE)
    ELSE
        IF isTabsGroup(layout[position]) THEN
            Outcome([layout EXCEPT ![position].panels = Append(@, sel.id)], sel, TRUE)
        ELSE Outcome(assignPanel(layout, sel.id, position), NoSelection, TRUE)

handleSlotClick(layout, sel, position) ==
    IF sel.type = "none" THEN
        Outcome(layout, SlotSelected(position), FALSE)
    ELSE IF sel.type = "slot" THEN
        IF sel.position = position
        THEN Outcome(layout, sel, FALSE)
        ELSE Outcome(swapSlots(layout, sel.position, position), NoSelection, TRUE)
    ELSE
        IF isTabsGroup(layout[position]) THEN
            IF sel.id \in Range(layout[position].panels)
            THEN Outcome(layout, NoSelection, FALSE)
            ELSE Outcome(addPanelToTabGroup(layout, sel.id, position), sel, TRUE)
        ELSE Outcome(assignPanel(layout, sel.id, position), NoSelection, TRUE)

(* handlePanelClick without the check that the panel is already in the    *)
(* armed tabs group.                                                       *)
handlePanelClickNoMembershipCheck(layout, sel, panelId) ==
    IF sel.type = "none" THEN
        Outcome(layout, PanelSelected(panelId), FALSE)
    ELSE IF sel.type = "slot" THEN
        IF isTabsGroup(layout[sel.position]) THEN
            Outcome(addPanelToTabGroup(layout, panelId, sel.position), NoSelection, TRUE)
        ELSE Outcome(assignPanel(layout, panelId, sel.position), NoSelection, TRUE)
    ELSE
        Outcome(layout, PanelSelected(panelId), FALSE)

handlePanelClick(layout, sel, panelId) ==
    IF sel.type = "none" THEN
        Outcome(layout, PanelSelected(panelId), FALSE)
    ELSE IF sel.type = "slot" THEN
        IF isTabsGroup(layout[sel.position]) THEN
            IF panelId \in Range(layout[sel.position].panels)
            THEN Outcome(layout, NoSelection, FALSE)
            ELSE Outcome(addPanelToTabGroup(layout, panelId, sel.position), NoSelection, TRUE)
        ELSE Outcome(assignPanel(layout, panelId, sel.position), NoSelection, TRUE)
    ELSE
        Outcome(layout, PanelSelected(panelId), FALSE)

(* handleSlotClear without setSelection(null). *)
handleSlotClearKeepsSelection(layout, sel, position) ==
    Outcome([layout EXCEPT ![position] = Empty], sel, TRUE)

handleSlotClear(layout, sel, position) ==
    Outcome([layout EXCEPT ![position] = Empty], NoSelection, TRUE)

toggleTabMode(layout, sel, position) ==
    Outcome([layout EXCEPT ![position] = toggleSlot(layout[position])], sel, TRUE)

(* removePanelFromTabGroup acting on a group of any type. *)
removePanelFromAnyGroup(layout, sel, position, panelId) ==
    IF ~isGroup(layout[position])
    THEN Outcome(layout, sel, FALSE)
    ELSE Outcome([layout EXCEPT ![position] = removeFromGroupSlot(layout[position], panelId)],
                 sel, TRUE)

removePanelFromTabGroup(layout, sel, position, panelId) ==
    IF ~isTabsGroup(layout[position])
    THEN Outcome(layout, sel, FALSE)
    ELSE Outcome([layout EXCEPT ![position] = removeFromGroupSlot(layout[position], panelId)],
                 sel, TRUE)

updateTabConfig(layout, sel, position, partial) ==
    IF ~isTabsGroup(layout[position])
    THEN Outcome(layout, sel, FALSE)
    ELSE Outcome([layout EXCEPT ![position] =
                     [layout[position] EXCEPT !.config = mergeTabsConfig(@, partial)]],
                 sel, TRUE)

-----------------------------------------------------------------------------
(* The shift-click build of the configurator (the TabGroupWorkflow story): *)
(* panels are multi-selected by shift-click and the "+ Tab Group" button   *)
(* of an empty slot groups them.                                           *)

RECURSIVE removePanelsFromLayout(_, _)
(* Every id of ids removed from its slot, one removePanelFromLayout each. *)
removePanelsFromLayout(layout, ids) ==
    IF ids = <<>> THEN layout
    ELSE removePanelsFromLayout(removePanelFromLayout(layout, Head(ids)), Tail(ids))

(* createGroup(layout, ids, position): rejected with fewer than two ids. *)
createGroup(layout, ids, position) ==
    IF Len(ids) < 2 THEN layout
    ELSE [removePanelsFromLayout(layout, ids) EXCEPT
             ![position] = Group("tabs", ids, DefaultTabsConfig)]

(* Shift-click of a catalog panel: the panel is toggled in or out of the   *)
(* multi-selection.                                                        *)
handlePanelShiftClick(layout, sel, panelId) ==
    IF sel.type # "multi" THEN Outcome(layout, MultiSelected(<<panelId>>), FALSE)
    ELSE IF panelId \in Range(sel.ids)
         THEN Outcome(layout, MultiSelected(FilterOut(sel.ids, panelId)), FALSE)
         ELSE Outcome(layout, MultiSelected(Append(sel.ids, panelId)), FALSE)

(* Click of the "+ Tab Group" button of an empty slot. *)
handleCreateTabGroup(layout, sel, position) ==
    IF sel.type = "multi" /\ Len(sel.ids) >= 2
    THEN Outcome(createGroup(layout, sel.ids, position), NoSelection, TRUE)
    ELSE Outcome(layout, sel, FALSE)

-----------------------------------------------------------------------------
(* ThreePanelLayout: the controller of the collapse and expand animations  *)
(* of the two outer panels of a three-panel PanelGroup.  Sizes are         *)
(* percentages held in units of 1/Scale, so that the eased sizes of the    *)
(* frames are exact.  Time is counted in ticks.                            *)

(* Ticks in one animationDuration. *)
TicksPerDuration == 2

(* A frame comes 1..MaxFrameTicks ticks after the frame before it. *)
MaxFrameTicks == 2

animationDuration == TicksPerDuration

Scale == animationDuration * animationDuration * animationDuration

Sides == {"left", "right"}

Other(side) == IF side = "left" THEN "right" ELSE "left"

(* defaultSizes = { left: 20, middle: 60, right: 20 } *)
defaultSizes == [left |-> 20 * Scale, middle |-> 60 * Scale, right |-> 20 * Scale]

(* minSizes = { left: 15, middle: 30, right: 15 } *)
minSizes == [left |-> 15 * Scale, middle |-> 30 * Scale, right |-> 15 * Scale]

(* Sizes the PanelGroup gives an outer panel while its handle is dragged:  *)
(* the handle is dragged until the panel is at its minSize.                *)
DragSizes(side) == {minSizes[side]}

VARIABLES
    leftRightCollapsed,  \* leftCollapsed, rightCollapsed
    leftRightAnimating,  \* leftAnimating, rightAnimating
    leftRightSize,       \* leftSize, rightSize
    isDragging,
    animationFrameRef,   \* per side: id of the frame callback last requested,
                         \* 0 when undefined or when that callback is gone
    startTimeRef,        \* per side: ticks since startTimeRef.current was set
    frameCallbacks,      \* callbacks requestAnimationFrame holds, oldest first
    groupLayout,         \* the PanelGroup's layout [left, middle, right]
    written,             \* per side: the size its animation wrote last
    sizeBeforeCollapse,  \* history, kept where tracked: per side the
                         \* leftSize / rightSize the collapse handler
                         \* accepted last has read
    collapsiblePanels,   \* props.collapsiblePanels
    panelGroupRef,       \* panelGroupRef.current is the handle of the
                         \* PanelGroup (TRUE) or null (FALSE)
    last                 \* the last step: what was asked and what it
                         \* called, in order

ctlVars ==
    <<leftRightCollapsed, leftRightAnimating, leftRightSize, isDragging,
      animationFrameRef, startTimeRef, frameCallbacks, groupLayout, written,
      sizeBeforeCollapse, collapsiblePanels, panelGroupRef, last>>

VARIABLES
    tabGroup             \* a TabGroup: its props panelIds and panels (the
                         \* ids of the panels that have content) and its
                         \* state activeTabIndex

tabVars == <<tabGroup>>

allVars == <<vars, ctlVars, tabVars>>

(* The history of a layout that keeps none, and of one that keeps it and   *)
(* has seen no collapse.                                                   *)
NoSizeBefore == [side \in Sides |-> [known |-> FALSE, size |-> 0]]

NoHistory == [tracked |-> FALSE, of |-> NoSizeBefore]

EmptyHistory == [tracked |-> TRUE, of |-> NoSizeBefore]

(* The state the handlers and frame callbacks act on, as one value. *)
Rendered ==
    [collapsed |-> leftRightCollapsed, animating |-> leftRightAnimating,
     size |-> leftRightSize, dragging |-> isDragging,
     frameRef |-> animationFrameRef, elapsed |-> startTimeRef,
     queue |-> frameCallbacks, running |-> <<>>, layout |-> groupLayout,
     written |-> written, before |-> sizeBeforeCollapse,
     rendered |-> leftRightSize, log |-> <<>>]

Min(a, b) == IF a < b THEN a ELSE b

Max(a, b) == IF a > b THEN a ELSE b

Logged(w, event) == [w EXCEPT !.log = Append(@, event)]

(* A lifecycle notification: onLeftCollapseStart, ... *)
Notify(w, side, kind, phase) ==
    Logged(w, [type |-> "notify", side |-> side, kind |-> kind, phase |-> phase])

(* handleDragEnd: onPanelResize is called with leftSize and rightSize of   *)
(* the render the callback belongs to and with what they leave of 100.     *)
handleDragEnd(w) ==
    Logged(w, [type |-> "onPanelResize", left |-> w.rendered["left"],
               middle |-> 100 * Scale - w.rendered["left"] - w.rendered["right"],
               right |-> w.rendered["right"]])

(* A call runs in the state the statements before it have left: an         *)
(* operator on states applies its step to the value w of the state w0 it   *)
(* is given.                                                               *)

-----------------------------------------------------------------------------
(* requestAnimationFrame / cancelAnimationFrame *)

CallbackIds(w0) ==
    LET step(w) ==
            {w.queue[i].id : i \in 1..Len(w.queue)} \cup {w.running[i].id : i \in 1..Len(w.running)}
    IN  CHOOSE after \in {step(w) : w \in {w0}} : TRUE

NewId(w0) ==
    LET step(w) ==
            CHOOSE i \in 1..(Cardinality(CallbackIds(w)) + 1) :
                /\ i \notin CallbackIds(w)
                /\ \A j \in 1..(i - 1) : j \in CallbackIds(w)
    IN  CHOOSE after \in {step(w) : w \in {w0}} : TRUE

(* animationFrameRef.current = requestAnimationFrame(callback) *)
requestAnimationFrame(w0, side, callback) ==
    LET step(w) ==
            LET id == NewId(w)
            IN  Logged([w EXCEPT !.queue = Append(@, [callback EXCEPT !.id = id]),
                                 !.frameRef[side] = id],
                       [type |-> "requestFrame", side |-> side])
    IN  CHOOSE after \in {step(w) : w \in {w0}} : TRUE

(* if (animationFrameRef.current) cancelAnimationFrame(animationFrameRef.current) *)
cancelAnimationFrame(w0, side) ==
    LET step(w) ==
            LET id == w.frameRef[side]
            IN  IF id = 0 THEN w
                ELSE [w EXCEPT !.queue = SelectSeq(@, LAMBDA cb : cb.id # id),
                               !.running = SelectSeq(@, LAMBDA cb : cb.id # id),
                               !.frameRef[side] = 0]
    IN  CHOOSE after \in {step(w) : w \in {w0}} : TRUE

-----------------------------------------------------------------------------
(* The PanelGroup and its Panels: the imperative calls the controller      *)
(* makes and the onResize, onCollapse and onExpand props they fire.        *)

Total(layout) == layout.left + layout.middle + layout.right

(* handleLeftResize / handleRightResize with only the side's own animating *)
(* flag in the guard.                                                      *)
handleResizeOwnFlagOnly(w0, side, size) ==
    LET step(w) ==
            IF ~w.animating[side]
            THEN [w EXCEPT !.size[side] = size,
                           !.collapsed[side] = IF size > 0 THEN FALSE ELSE @]
            ELSE w
    IN  CHOOSE after \in {step(w) : w \in {w0}} : TRUE

(* handleLeftResize / handleRightResize *)
handleResize(w0, side, size) ==
    LET step(w) ==
            IF ~w.animating["left"] /\ ~w.animating["right"]
            THEN [w EXCEPT !.size[side] = size,
                           !.collapsed[side] = IF size > 0 THEN FALSE ELSE @]
            ELSE w
    IN  CHOOSE after \in {step(w) : w \in {w0}} : TRUE

(* The props of one outer Panel fired for a change of the layout:          *)
(* onResize={handleLeftResize}, onCollapse={() => setLeftCollapsed(true)}, *)
(* onExpand={() => setLeftCollapsed(false)}.                               *)
PanelCallbacks(w0, side, old, new) ==
    LET step(w) ==
            LET resized == IF new[side] # old[side] THEN handleResize(w, side, new[side]) ELSE w
            IN  IF ~collapsiblePanels[side] THEN resized
                ELSE IF old[side] = 0 /\ new[side] # 0
                     THEN [resized EXCEPT !.collapsed[side] = FALSE]
                ELSE IF old[side] # 0 /\ new[side] = 0
                     THEN [resized EXCEPT !.collapsed[side] = TRUE]
                ELSE resized
    IN  CHOOSE after \in {step(w) : w \in {w0}} : TRUE

(* The layout of the PanelGroup set to new, and the props fired: where the *)
(* layout changes, onLayout={handleDragEnd} of the PanelGroup and then the *)
(* props of the Panels.                                                    *)
LayoutChanged(w0, new) ==
    LET step(w) ==
            LET old == w.layout
                laid == IF new # old THEN handleDragEnd([w EXCEPT !.layout = new]) ELSE w
            IN  PanelCallbacks(PanelCallbacks(laid, "left", old, new), "right", old, new)
    IN  CHOOSE after \in {step(w) : w \in {w0}} : TRUE

(* panelGroupRef.current.setLayout([left, middle, right]); on a null       *)
(* handle the call throws a TypeError.                                     *)
setLayout(w, new) ==
    IF panelGroupRef
    THEN LayoutChanged(Logged(w, [type |-> "setLayout", layout |-> new]), new)
    ELSE Logged(w, [type |-> "TypeError"])

(* The layout with one outer panel at size and the middle panel taking up  *)
(* the difference.                                                         *)
Resized(layout, side, size) ==
    LET outer == [layout EXCEPT ![side] = size]
    IN  [outer EXCEPT !.middle = Max(Total(layout) - outer.left - outer.right, 0)]

(* panelRef.current.resize(size) *)
panelResize(w0, side, size) ==
    LET step(w) ==
            LayoutChanged(Logged(w, [type |-> "resize", side |-> side, size |-> size]),
                          Resized(w.layout, side, size))
    IN  CHOOSE after \in {step(w) : w \in {w0}} : TRUE

(* panelRef.current.collapse() *)
panelCollapse(w0, side) ==
    LET step(w) ==
            LayoutChanged(Logged(w, [type |-> "collapse", side |-> side]),
                          Resized(w.layout, side, 0))
    IN  CHOOSE after \in {step(w) : w \in {w0}} : TRUE

-----------------------------------------------------------------------------
(* animatePanel *)

NoLayout == [left |-> 0, middle |-> 0, right |-> 0]

(* eased with the first branch, 4 p^3, taken for every progress. *)
easedFirstBranchOnly(elapsed) == 4 * elapsed * elapsed * elapsed

(* eased * Scale for progress = elapsed / animationDuration:               *)
(* progress < 0.5 ? 4 p^3 : 1 - (-2p + 2)^3 / 2                            *)
eased(elapsed) ==
    IF 2 * elapsed < animationDuration
    THEN 4 * elapsed * elapsed * elapsed
    ELSE Scale - 4 * (animationDuration - elapsed) * (animationDuration - elapsed)
                   * (animationDuration - elapsed)

(* fromSize + (toSize - fromSize) * eased *)
newSize(fromSize, toSize, elapsed) ==
    fromSize + ((toSize - fromSize) \div Scale) * eased(elapsed)

(* appliedLayout that leaves the middle panel at the size read when the    *)
(* animation started.                                                      *)
appliedLayoutKeepsMiddle(cb, targetSize) ==
    LET initial == cb.initialLayout
        locked == IF cb.locked > 0
                  THEN [initial EXCEPT ![Other(cb.side)] = cb.locked]
                  ELSE initial
    IN  [locked EXCEPT ![cb.side] = targetSize]

(* applyLayout(targetSize) of the animation cb: the layout read when the   *)
(* animation started, with the locked panel at its locked size, the        *)
(* animated panel at targetSize and the middle panel taking the rest.      *)
appliedLayout(cb, targetSize) ==
    LET initial == cb.initialLayout
        locked == IF cb.locked > 0
                  THEN [initial EXCEPT ![Other(cb.side)] = cb.locked]
                  ELSE initial
        target == [locked EXCEPT ![cb.side] = targetSize]
    IN  [target EXCEPT !.middle = Max(Total(initial) - target.left - target.right, 0)]

(* applyLayout without the fallback for a null panelGroupRef.current. *)
applyLayoutGroupOnly(w0, cb, targetSize) ==
    LET step(w) ==
            setLayout(Logged([w EXCEPT !.written[cb.side] = targetSize],
                             [type |-> "applyLayout", side |-> cb.side, size |-> targetSize,
                              prev |-> w.written[cb.side],
                              fromSize |-> cb.fromSize, toSize |-> cb.toSize]),
                      appliedLayout(cb, targetSize))
    IN  CHOOSE after \in {step(w) : w \in {w0}} : TRUE

(* applyLayout(targetSize): without the handle of the PanelGroup the       *)
(* animated panel alone is resized.                                        *)
applyLayout(w0, cb, targetSize) ==
    LET step(w) ==
            LET applying == Logged([w EXCEPT !.written[cb.side] = targetSize],
                                   [type |-> "applyLayout", side |-> cb.side,
                                    size |-> targetSize, prev |-> w.written[cb.side],
                                    fromSize |-> cb.fromSize, toSize |-> cb.toSize])
            IN  IF ~panelGroupRef
                THEN panelResize(applying, cb.side, targetSize)
                ELSE setLayout(applying, appliedLayout(cb, targetSize))
    IN  CHOOSE after \in {step(w) : w \in {w0}} : TRUE

(* The log notes the state of the side that an onComplete is about to      *)
(* resize.                                                                 *)
Asserting(w, side, size) ==
    Logged(w, [type |-> "assert", side |-> side, size |-> size,
               collapsed |-> w.collapsed[side], animating |-> w.animating[side]])

(* The onComplete of the handlers: setLeftSize(toSize), the other side's   *)
(* size asserted again, setLeftAnimating(false), the notification.         *)
onComplete(w0, cb) ==
    LET step(w) ==
            LET sized == [w EXCEPT !.size[cb.side] = cb.toSize]
                asserted == IF cb.locked > 0
                            THEN panelResize(Asserting(sized, Other(cb.side), cb.locked),
                                             Other(cb.side), cb.locked)
                            ELSE sized
            IN  Notify([asserted EXCEPT !.animating[cb.side] = FALSE,
                                        !.elapsed[cb.side] = 0,
                                        !.written[cb.side] = 0],
                       cb.side, cb.op, "complete")
    IN  CHOOSE after \in {step(w) : w \in {w0}} : TRUE

(* animate calling onComplete on every frame. *)
animateCompleteEveryFrame(w0, cb) ==
    LET step(w) ==
            LET elapsed == w.elapsed[cb.side]
                framed == Logged(w, [type |-> "frame", side |-> cb.side, op |-> cb.op,
                                     elapsed |-> elapsed, toSize |-> cb.toSize])
                applied == applyLayout(framed, cb, newSize(cb.fromSize, cb.toSize, elapsed))
            IN  IF elapsed < animationDuration
                THEN onComplete(requestAnimationFrame(applied, cb.side, cb), cb)
                ELSE LET final == applyLayout(applied, cb, cb.toSize)
                         ensured == IF cb.toSize = 0 THEN panelCollapse(final, cb.side)
                                    ELSE panelResize(final, cb.side, cb.toSize)
                     IN  onComplete(ensured, cb)
    IN  CHOOSE after \in {step(w) : w \in {w0}} : TRUE

(* animate calling the panel's collapse() on every frame of a collapse. *)
animateCollapseEveryFrame(w0, cb) ==
    LET step(w) ==
            LET elapsed == w.elapsed[cb.side]
                framed == Logged(w, [type |-> "frame", side |-> cb.side, op |-> cb.op,
                                     elapsed |-> elapsed, toSize |-> cb.toSize])
                applied == applyLayout(framed, cb, newSize(cb.fromSize, cb.toSize, elapsed))
                ensured == IF cb.toSize = 0 THEN panelCollapse(applied, cb.side)
                           ELSE panelResize(applied, cb.side, cb.toSize)
            IN  IF elapsed < animationDuration
                THEN requestAnimationFrame(ensured, cb.side, cb)
                ELSE onComplete(applyLayout(ensured, cb, cb.toSize), cb)
    IN  CHOOSE after \in {step(w) : w \in {w0}} : TRUE

(* animate that never takes the final branch. *)
animateNeverFinal(w0, cb) ==
    LET step(w) ==
            LET elapsed == w.elapsed[cb.side]
                framed == Logged(w, [type |-> "frame", side |-> cb.side, op |-> cb.op,
                                     elapsed |-> elapsed, toSize |-> cb.toSize])
                applied == applyLayout(framed, cb, newSize(cb.fromSize, cb.toSize, elapsed))
            IN  requestAnimationFrame(applied, cb.side, cb)
    IN  CHOOSE after \in {step(w) : w \in {w0}} : TRUE

(* animate(currentTime): one frame of the animation cb. *)
animate(w0, cb) ==
    LET step(w) ==
            LET elapsed == w.elapsed[cb.side]
                framed == Logged(w, [type |-> "frame", side |-> cb.side, op |-> cb.op,
                                     elapsed |-> elapsed, toSize |-> cb.toSize])
                applied == applyLayout(framed, cb, newSize(cb.fromSize, cb.toSize, elapsed))
            IN  IF elapsed < animationDuration
                THEN requestAnimationFrame(applied, cb.side, cb)
                ELSE LET final == applyLayout(applied, cb, cb.toSize)
                         ensured == IF cb.toSize = 0 THEN panelCollapse(final, cb.side)
                                    ELSE panelResize(final, cb.side, cb.toSize)
                     IN  onComplete(ensured, cb)
    IN  CHOOSE after \in {step(w) : w \in {w0}} : TRUE

(* animatePanel(...): the frame callback the handlers request.  The        *)
(* pending frame of the side is cancelled, the start time and the layout   *)
(* of the PanelGroup are read and the first animate is requested.  Without *)
(* the handle of the PanelGroup the layout is the fallback of the handler. *)
animatePanel(w0, cb) ==
    LET step(w) ==
            LET cancelled == cancelAnimationFrame(w, cb.side)
                started == [cancelled EXCEPT !.elapsed[cb.side] = 0,
                                             !.written[cb.side] = cb.fromSize]
            IN  requestAnimationFrame(started, cb.side,
                                      [cb EXCEPT !.kind = "animate",
                                                 !.initialLayout =
                                                     IF panelGroupRef THEN w.layout ELSE @])
    IN  CHOOSE after \in {step(w) : w \in {w0}} : TRUE

-----------------------------------------------------------------------------
(* The collapse and expand handlers.  r is the state of the render the     *)
(* handler belongs to, w the state it acts on.                             *)

(* if (leftAnimating || isDragging || !collapsiblePanels.left) return *)
Accepts(r, side) == ~r.animating[side] /\ ~r.dragging /\ collapsiblePanels[side]

(* The resolvedInitialLayout of animatePanel when getLayout() gives none:  *)
(* the animated panel at fromSize, the other outer panel at its leftSize / *)
(* rightSize of the handler's render, the middle panel at what they leave  *)
(* of 100.                                                                 *)
fallbackLayout(r, side, fromSize) ==
    LET outer == [NoLayout EXCEPT ![side] = fromSize, ![Other(side)] = r.size[Other(side)]]
    IN  [outer EXCEPT !.middle = Max(100 * Scale - outer.left - outer.right, 0)]

(* The layout a starting animation carries to animatePanel: the fallback   *)
(* where the handle of the PanelGroup is missing, none where getLayout()   *)
(* will be read.                                                           *)
carriedLayout(r, side, fromSize) ==
    IF panelGroupRef THEN NoLayout ELSE fallbackLayout(r, side, fromSize)

(* The lockedPanel of the animation, and the size its onComplete asserts:  *)
(* !rightCollapsed && rightSize > 0 ? rightSize : undefined (0 here).      *)
lockedPanel(r, side) ==
    IF ~r.collapsed[Other(side)] /\ r.size[Other(side)] > 0 THEN r.size[Other(side)] ELSE 0

(* startAnimation with the expand going to the size the side had when its  *)
(* last collapse started, where that is known.                             *)
startAnimationRestoring(w0, r, side, op) ==
    LET step(w) ==
            LET flagged == [w EXCEPT !.animating[side] = TRUE,
                                     !.collapsed[side] = (op = "collapse"),
                                     !.before.of[side] =
                                         IF w.before.tracked /\ op = "collapse"
                                         THEN [known |-> TRUE, size |-> r.size[side]]
                                         ELSE @]
                notified == Notify(flagged, side, op, "start")
                cancelled == cancelAnimationFrame(notified, side)
            IN  requestAnimationFrame(cancelled, side,
                    [id |-> 0, side |-> side, kind |-> "start", op |-> op,
                     fromSize |-> IF op = "collapse" THEN r.size[side] ELSE 0,
                     toSize |-> IF op = "collapse" THEN 0
                               ELSE IF w.before.of[side].known
                                    THEN w.before.of[side].size
                                    ELSE defaultSizes[side],
                     locked |-> lockedPanel(r, side),
                     initialLayout |->
                         carriedLayout(r, side, IF op = "collapse" THEN r.size[side] ELSE 0)])
    IN  CHOOSE after \in {step(w) : w \in {w0}} : TRUE

(* The handler from flushSync on: the flags set, the start notification,   *)
(* the pending frame cancelled and the frame running animatePanel asked.   *)
(* A collapse leaves the size it read in the history.                      *)
startAnimation(w0, r, side, op) ==
    LET step(w) ==
            LET flagged == [w EXCEPT !.animating[side] = TRUE,
                                     !.collapsed[side] = (op = "collapse"),
                                     !.before.of[side] =
                                         IF w.before.tracked /\ op = "collapse"
                                         THEN [known |-> TRUE, size |-> r.size[side]]
                                         ELSE @]
                notified == Notify(flagged, side, op, "start")
                cancelled == cancelAnimationFrame(notified, side)
            IN  requestAnimationFrame(cancelled, side,
                    [id |-> 0, side |-> side, kind |-> "start", op |-> op,
                     fromSize |-> IF op = "collapse" THEN r.size[side] ELSE 0,
                     toSize |-> IF op = "collapse" THEN 0 ELSE defaultSizes[side],
                     locked |-> lockedPanel(r, side),
                     initialLayout |->
                         carriedLayout(r, side, IF op = "collapse" THEN r.size[side] ELSE 0)])
    IN  CHOOSE after \in {step(w) : w \in {w0}} : TRUE

(* handleLeftCollapse without the guard and without the cancellation of    *)
(* the pending frame.                                                      *)
handleCollapseUnguarded(w, r, side) ==
    requestAnimationFrame(
        Notify([w EXCEPT !.animating[side] = TRUE, !.collapsed[side] = TRUE],
               side, "collapse", "start"),
        side,
        [id |-> 0, side |-> side, kind |-> "start", op |-> "collapse",
         fromSize |-> r.size[side], toSize |-> 0,
         locked |-> lockedPanel(r, side),
         initialLayout |-> carriedLayout(r, side, r.size[side])])

(* handleLeftCollapse with the guard on isDragging left out. *)
handleCollapseWhileDragging(w, r, side) ==
    IF ~r.animating[side] /\ collapsiblePanels[side]
    THEN startAnimation(w, r, side, "collapse")
    ELSE w

(* handleLeftCollapse refusing while either side animates. *)
handleCollapseEitherSide(w, r, side) ==
    IF Accepts(r, side) /\ ~r.animating[Other(side)]
    THEN startAnimation(w, r, side, "collapse")
    ELSE w

(* handleLeftCollapse / handleRightCollapse *)
handleCollapse(w, r, side) ==
    IF Accepts(r, side) THEN startAnimation(w, r, side, "collapse") ELSE w

(* handleLeftExpand / handleRightExpand *)
handleExpand(w, r, side) ==
    IF Accepts(r, side) THEN startAnimation(w, r, side, "expand") ELSE w

(* toggleLeftPanel / toggleRightPanel *)
togglePanel(w, r, side) ==
    IF r.collapsed[side] THEN handleExpand(w, r, side) ELSE handleCollapse(w, r, side)

(* The effect of [collapsed.left] for props.collapsed = newCollapsed:      *)
(* if (collapsed.left !== leftCollapsed) the collapse or expand handler.   *)
collapsedEffect(w, r, side, newCollapsed) ==
    IF newCollapsed[side] # r.collapsed[side]
    THEN IF newCollapsed[side] THEN handleCollapse(w, r, side)
         ELSE handleExpand(w, r, side)
    ELSE w

-----------------------------------------------------------------------------
(* One animation frame of the browser. *)

RunCallback(w, cb) ==
    IF cb.kind = "start" THEN animatePanel(w, cb) ELSE animate(w, cb)

RECURSIVE RunCallbacks(_)
(* The callbacks of the frame run in the order they were requested; one    *)
(* cancelled by an earlier callback of the frame does not run.             *)
RunCallbacks(w0) ==
    LET step(w) ==
            IF w.running = <<>> THEN w
            ELSE LET cb == Head(w.running)
                 IN  RunCallbacks(RunCallback(
                         [w EXCEPT !.running = Tail(@),
                                   !.frameRef = [side \in Sides |-> IF @[side] = cb.id THEN 0 ELSE @[side]]],
                         cb))
    IN  CHOOSE after \in {step(w) : w \in {w0}} : TRUE

(* The sides whose animation has read its start time and not completed. *)
Timed(w, side) ==
    \E i \in 1..Len(w.queue) : w.queue[i].side = side /\ w.queue[i].kind = "animate"

(* RunFrame with the progress of the animations not held at 1. *)
RunFrameUnclamped(w0, dt) ==
    LET step(w) ==
            RunCallbacks([w EXCEPT
                !.elapsed = [side \in Sides |->
                                IF Timed(w, side) THEN w.elapsed[side] + dt
                                ELSE w.elapsed[side]],
                !.running = w.queue,
                !.queue = <<>>])
    IN  CHOOSE after \in {step(w) : w \in {w0}} : TRUE

(* The frame that comes dt ticks after the one before: the callbacks       *)
(* requested so far run with the new time; those they request wait for the *)
(* next frame.                                                             *)
RunFrame(w0, dt) ==
    LET step(w) ==
            RunCallbacks([w EXCEPT
                !.elapsed = [side \in Sides |->
                                IF Timed(w, side) THEN Min(w.elapsed[side] + dt, animationDuration)
                                ELSE w.elapsed[side]],
                !.running = w.queue,
                !.queue = <<>>])
    IN  CHOOSE after \in {step(w) : w \in {w0}} : TRUE

-----------------------------------------------------------------------------
(* The mounted ThreePanelLayout. *)

(* What a step leaves in last. *)
Did(op, side, arg, w) ==
    [op |-> op, side |-> side, arg |-> arg, log |-> w.log]

(* The state after the first render with the props collapsed and           *)
(* collapsiblePanels: the useState initial values and the defaultSize of   *)
(* the Panels.                                                             *)
Mounted(collapsedProp, collapsibleProp) ==
    /\ collapsiblePanels = collapsibleProp
    /\ leftRightCollapsed = collapsedProp
    /\ leftRightAnimating = [side \in Sides |-> FALSE]
    /\ leftRightSize = [side \in Sides |-> IF collapsedProp[side] THEN 0 ELSE defaultSizes[side]]
    /\ isDragging = FALSE
    /\ animationFrameRef = [side \in Sides |-> 0]
    /\ startTimeRef = [side \in Sides |-> 0]
    /\ frameCallbacks = <<>>
    /\ groupLayout = Resized(Resized([left |-> 0, middle |-> 100 * Scale, right |-> 0],
                                     "left", leftRightSize["left"]),
                             "right", leftRightSize["right"])
    /\ written = [side \in Sides |-> 0]
    /\ last = Did("mount", "none", 0, Rendered)

(* collapsed = { left: false, right: false },                              *)
(* collapsiblePanels = { left: true, right: true }                         *)
MountedWithDefaults ==
    Mounted([side \in Sides |-> FALSE], [side \in Sides |-> TRUE])

-----------------------------------------------------------------------------
(* TabGroup: the tabs of a group, in a renderer of the layout. *)

(* No TabGroup is shown. *)
NoTabGroup == [panelIds |-> <<>>, panels |-> {}, activeTabIndex |-> 0]

(* panelIds.map(id => panels.find(p => p.id === id)).filter(p => p !== undefined) *)
tabPanels(tg) == SelectSeq(tg.panelIds, LAMBDA id : id \in tg.panels)

(* Math.min(activeTabIndex, tabPanels.length - 1) *)
safeActiveIndex(tg) == Min(tg.activeTabIndex, Len(tabPanels(tg)) - 1)

(* tabPanels[safeActiveIndex], "undefined" where the array has no such     *)
(* index.                                                                  *)
activePanel(tg) ==
    IF safeActiveIndex(tg) \in 0..(Len(tabPanels(tg)) - 1)
    THEN tabPanels(tg)[safeActiveIndex(tg) + 1]
    ELSE "undefined"

-----------------------------------------------------------------------------
(* Layouts the host starts the configurator with: every panel placed at    *)
(* most once, a group holding two or more distinct panels with the default *)
(* configuration.                                                          *)

RECURSIVE SeqsOver(_, _)
(* The sequences of n distinct elements of S. *)
SeqsOver(S, n) ==
    IF n = 0 THEN {<<>>}
    ELSE UNION {{Append(s, x) : x \in S \ Range(s)} : s \in SeqsOver(S, n - 1)}

InitialSlots ==
    {Empty}
    \cup {SinglePanel(id) : id \in PanelIds}
    \cup UNION {{Group(t, ps, DefaultTabsConfig) : t \in GroupTypes, ps \in SeqsOver(PanelIds, n)} :
                n \in 2..NumPanels}

SlotIds(slot) == Range(getPanelIdsFromSlot(slot))

PlacedOnce(layout) ==
    \A p, q \in Positions : p # q => SlotIds(layout[p]) \cap SlotIds(layout[q]) = {}

InitialLayouts == {l \in [Positions -> InitialSlots] : PlacedOnce(l)}

NoCall == [op |-> "none"]

(* The call of a handler that has run on the rendered layout and selection. *)
Called(op, position, id, out) ==
    [op |-> op, position |-> position, id |-> id,
     layout |-> out.layout, selection |-> out.selection, emitted |-> out.emitted]

Init ==
    /\ tabGroup = NoTabGroup
    /\ sizeBeforeCollapse = NoHistory
    /\ panelGroupRef = TRUE
    /\ currentLayout \in InitialLayouts
    /\ selection = NoSelection
    /\ call = NoCall
    /\ MountedWithDefaults

(* onClick of a slot *)
SlotClick ==
    /\ call = NoCall
    /\ \E position \in Positions :
           call' = Called("slotClick", position, "none",
                          handleSlotClick(currentLayout, selection, position))
    /\ UNCHANGED <<currentLayout, selection, ctlVars, tabVars>>

(* onClick of a catalog panel *)
PanelClick ==
    /\ call = NoCall
    /\ \E panelId \in PanelIds :
           call' = Called("panelClick", "none", panelId,
                          handlePanelClick(currentLayout, selection, panelId))
    /\ UNCHANGED <<currentLayout, selection, ctlVars, tabVars>>

(* onClick of the clear button, rendered in a slot holding a single panel *)
SlotClear ==
    /\ call = NoCall
    /\ \E position \in Positions :
           /\ currentLayout[position].kind = "single"
           /\ call' = Called("clear", position, "none",
                             handleSlotClear(currentLayout, selection, position))
    /\ UNCHANGED <<currentLayout, selection, ctlVars, tabVars>>

(* onClick of the tab-mode toggle, rendered in every slot *)
ToggleTabMode ==
    /\ call = NoCall
    /\ \E position \in Positions :
           call' = Called("toggle", position, "none",
                          toggleTabMode(currentLayout, selection, position))
    /\ UNCHANGED <<currentLayout, selection, ctlVars, tabVars>>

(* onClick of the remove button of a member of a group *)
RemoveFromGroup ==
    /\ call = NoCall
    /\ \E position \in Positions :
           /\ isGroup(currentLayout[position])
           /\ \E panelId \in Range(currentLayout[position].panels) :
                  call' = Called("removeFromGroup", position, panelId,
                                 removePanelFromTabGroup(currentLayout, selection,
                                                         position, panelId))
    /\ UNCHANGED <<currentLayout, selection, ctlVars, tabVars>>

(* onChange of the tab position <select>, rendered in a non-empty tabs group *)
UpdateTabConfig ==
    /\ call = NoCall
    /\ \E position \in Positions :
           /\ isTabsGroup(currentLayout[position])
           /\ Len(currentLayout[position].panels) > 0
           /\ \E tp \in TabPositions \ {currentLayout[position].config.tabPosition} :
                  call' = Called("updateConfig", position, "none",
                                 updateTabConfig(currentLayout, selection, position,
                                                 [tabPosition |-> tp]))
    /\ UNCHANGED <<currentLayout, selection, ctlVars, tabVars>>

(* The render after a handler: the host has stored the layout handed to    *)
(* onChange (setLayout) and the configurator the selection it set.         *)
Render ==
    /\ call # NoCall
    /\ currentLayout' = call.layout
    /\ selection' = call.selection
    /\ call' = NoCall
    /\ UNCHANGED <<ctlVars, tabVars>>

Next ==
    \/ SlotClick
    \/ PanelClick
    \/ SlotClear
    \/ ToggleTabMode
    \/ RemoveFromGroup
    \/ UpdateTabConfig
    \/ Render

Spec == Init /\ [][Next]_allVars

-----------------------------------------------------------------------------
(* The shift-click build, started as the TabGroupWorkflow story starts it. *)

TabGroupWorkflowLayout ==
    [left |-> Empty, middle |-> SinglePanel("main"), right |-> Empty]

InitMulti ==
    /\ tabGroup = NoTabGroup
    /\ sizeBeforeCollapse = NoHistory
    /\ panelGroupRef = TRUE
    /\ currentLayout = TabGroupWorkflowLayout
    /\ selection = NoSelection
    /\ call = NoCall
    /\ MountedWithDefaults

(* Shift+Click of a catalog panel *)
PanelShiftClick ==
    /\ call = NoCall
    /\ \E panelId \in PanelIds :
           call' = Called("shiftClick", "none", panelId,
                          handlePanelShiftClick(currentLayout, selection, panelId))
    /\ UNCHANGED <<currentLayout, selection, ctlVars, tabVars>>

(* onClick of "+ Tab Group", rendered in an empty slot while panels are    *)
(* multi-selected                                                          *)
CreateTabGroup ==
    /\ call = NoCall
    /\ selection.type = "multi"
    /\ \E position \in Positions :
           /\ currentLayout[position] = Empty
           /\ call' = Called("createGroup", position, "none",
                             handleCreateTabGroup(currentLayout, selection, position))
    /\ UNCHANGED <<currentLayout, selection, ctlVars, tabVars>>

NextMulti ==
    \/ PanelShiftClick
    \/ CreateTabGroup
    \/ Render

SpecMulti == InitMulti /\ [][NextMulti]_allVars

-----------------------------------------------------------------------------
(* The ThreePanelLayout of a host that shows one fixed layout: clicks of   *)
(* the collapse buttons, changes of props.collapsed, drags of the resize   *)
(* handles and animation frames.                                           *)

(* The layouts of the spec's scenarios 1 and 4. *)
ScenarioLayout ==
    [left |-> SinglePanel("nav"), middle |-> SinglePanel("main"), right |-> SinglePanel("sidebar")]

Commit(w, step) ==
    /\ leftRightCollapsed' = w.collapsed
    /\ leftRightAnimating' = w.animating
    /\ leftRightSize' = w.size
    /\ isDragging' = w.dragging
    /\ animationFrameRef' = w.frameRef
    /\ startTimeRef' = w.elapsed
    /\ frameCallbacks' = w.queue
    /\ groupLayout' = w.layout
    /\ written' = w.written
    /\ sizeBeforeCollapse' = w.before
    /\ last' = step

InitLayout ==
    /\ tabGroup = NoTabGroup
    /\ sizeBeforeCollapse = NoHistory
    /\ panelGroupRef = TRUE
    /\ currentLayout = ScenarioLayout
    /\ selection = NoSelection
    /\ call = NoCall
    /\ \E collapsedProp \in [Sides -> BOOLEAN], collapsibleProp \in [Sides -> BOOLEAN] :
           Mounted(collapsedProp, collapsibleProp)

(* The resize handle of a side is disabled while the side is fully         *)
(* collapsed.                                                              *)
HandleEnabled(side) == ~(leftRightCollapsed[side] /\ ~leftRightAnimating[side])

(* onClick of a collapse button: rendered for a collapsible side, disabled *)
(* while the side animates.                                                *)
Toggle ==
    /\ \E side \in Sides :
           /\ collapsiblePanels[side]
           /\ ~leftRightAnimating[side]
           /\ \E w \in {togglePanel(Rendered, Rendered, side)} :
                  Commit(w, Did("toggle", side, 0, w))
    /\ UNCHANGED <<vars, collapsiblePanels, panelGroupRef, tabVars>>

(* The host renders with other props.collapsed.  An effect does something *)
(* only for a side whose prop changed to a value that differs from the     *)
(* side's collapsed state, so newCollapsed ranges over the props that      *)
(* differ from the state on the sides that changed (a render that brings   *)
(* the prop of a side back to its state runs no handler).  The effects run *)
(* left first, both in the state of that render.                           *)
CollapsedPropChange ==
    /\ \E newCollapsed \in [Sides -> BOOLEAN] \ {leftRightCollapsed} :
           \E w \in {collapsedEffect(collapsedEffect(Rendered, Rendered, "left", newCollapsed),
                                    Rendered, "right", newCollapsed)} :
               Commit(w, Did("collapsedProp", "none", newCollapsed, w))
    /\ UNCHANGED <<vars, collapsiblePanels, panelGroupRef, tabVars>>

(* onDragging(true) of an enabled resize handle *)
DragStart ==
    /\ ~isDragging
    /\ \E side \in Sides : HandleEnabled(side)
    /\ \E w \in {[Rendered EXCEPT !.dragging = TRUE]} :
           Commit(w, Did("dragStart", "none", 0, w))
    /\ UNCHANGED <<vars, collapsiblePanels, panelGroupRef, tabVars>>

(* The dragged handle moves: the PanelGroup resizes the outer panel next   *)
(* to it and fires its props.                                              *)
DragResize ==
    /\ isDragging
    /\ \E side \in Sides :
           /\ HandleEnabled(side)
           /\ \E size \in DragSizes(side) \ {groupLayout[side]} :
                  /\ \E w \in {LayoutChanged(Rendered, Resized(groupLayout, side, size))} :
                         Commit(w, Did("dragResize", side, size, w))
    /\ UNCHANGED <<vars, collapsiblePanels, panelGroupRef, tabVars>>

(* onDragging(false) with handleDragEnd reporting the layout of the        *)
(* PanelGroup in place of leftSize and rightSize.                          *)
DragEndReportsGroupLayout ==
    /\ isDragging
    /\ \E w \in {Logged([Rendered EXCEPT !.dragging = FALSE],
                       [type |-> "onPanelResize", left |-> groupLayout["left"],
                        middle |-> groupLayout["middle"],
                        right |-> groupLayout["right"]])} :
           Commit(w, Did("dragEnd", "none", 0, w))
    /\ UNCHANGED <<vars, collapsiblePanels, panelGroupRef, tabVars>>

(* onDragging(false): handleDragEnd reports the sizes to onPanelResize. *)
DragEnd ==
    /\ isDragging
    /\ \E w \in {handleDragEnd([Rendered EXCEPT !.dragging = FALSE])} :
           Commit(w, Did("dragEnd", "none", 0, w))
    /\ UNCHANGED <<vars, collapsiblePanels, panelGroupRef, tabVars>>

(* The browser runs an animation frame. *)
AnimationFrame ==
    /\ frameCallbacks # <<>>
    /\ \E dt \in 1..MaxFrameTicks :
           \E w \in {RunFrame(Rendered, dt)} :
               Commit(w, Did("frame", "none", dt, w))
    /\ UNCHANGED <<vars, collapsiblePanels, panelGroupRef, tabVars>>

NextLayout ==
    \/ Toggle
    \/ CollapsedPropChange
    \/ DragStart
    \/ DragResize
    \/ DragEnd
    \/ AnimationFrame

SpecLayout == InitLayout /\ [][NextLayout]_allVars

-----------------------------------------------------------------------------
(* Vocabulary of the properties.  In a state with a call (a handler has    *)
(* run and the render has not happened yet) currentLayout and selection    *)
(* are what the handler read, call.layout and call.selection what it set.  *)

Emitted == call.op # "none" /\ call.emitted

(* A group with fewer than two members. *)
SmallGroup(slot) == isGroup(slot) /\ Len(slot.panels) < 2

(* The call clicked a slot with a panel armed. *)
SlotClickWithPanelArmed == call.op = "slotClick" /\ selection.type = "panel"

(* The call clicked a catalog panel with a slot armed. *)
PanelClickWithSlotArmed == call.op = "panelClick" /\ selection.type = "slot"

(* The call clicked a slot with another slot armed. *)
SlotClickWithOtherSlotArmed ==
    call.op = "slotClick" /\ selection.type = "slot" /\ selection.position # call.position

(* The panel and the slot of an assignment call. *)
AssignedPanel == IF call.op = "slotClick" THEN selection.id ELSE call.id

AssignedSlot == IF call.op = "slotClick" THEN call.position ELSE selection.position

-----------------------------------------------------------------------------
(* C1: every layout handed to onChange holds each panel id in at most one  *)
(* slot, whatever sequence of handler calls led to it (the initial layout  *)
(* places no panel twice).                                                 *)
C1_EachPanelInOneSlot == Emitted => PlacedOnce(call.layout)

(* C1 witness: an armed panel that sat in another slot has been assigned. *)
C1_Witness ==
    /\ SlotClickWithPanelArmed
    /\ call.emitted
    /\ \E p \in Positions \ {call.position} : selection.id \in SlotIds(currentLayout[p])
    /\ selection.id \in SlotIds(call.layout[call.position])

(* C2 as stated: no layout handed to onChange holds a group with fewer     *)
(* than two members.                                                       *)
C2_NoSmallGroupEmitted ==
    Emitted => \A p \in Positions : ~SmallGroup(call.layout[p])

(* C2 amended: a removal leaves no group with fewer than two members.      *)
(* Remove-from-group turns the group it acts on into Empty at 0 remaining  *)
(* members and into the remaining SinglePanel at 1; an assignment, which   *)
(* removes the panel from the layout first, leaves no such group in any    *)
(* slot.  (Toggling tab mode on does emit a tabs group of 0 or 1 members.) *)
C2_RemovalCollapsesGroup ==
    /\ (call.op = "removeFromGroup" /\ call.emitted) =>
          LET rest == FilterOut(currentLayout[call.position].panels, call.id)
              slot == call.layout[call.position]
          IN  /\ ~SmallGroup(slot)
              /\ Len(rest) = 0 => slot = Empty
              /\ Len(rest) = 1 => slot = SinglePanel(rest[1])
              /\ Len(rest) >= 2 => isGroup(slot) /\ slot.panels = rest
    /\ ((SlotClickWithPanelArmed \/ PanelClickWithSlotArmed) /\ call.emitted) =>
          \A p \in Positions : ~SmallGroup(call.layout[p])

(* C2 witness: a member of a two-member group has been removed and the     *)
(* slot holds the other member as a single panel.                          *)
C2_Witness ==
    /\ call.op = "removeFromGroup"
    /\ call.emitted
    /\ Len(currentLayout[call.position].panels) = 2
    /\ call.layout[call.position].kind = "single"

(* C3 as stated: with slot P armed and holding a tabs group without X, a   *)
(* click on catalog panel X hands to onChange a layout where P is the tabs *)
(* group with X appended after its prior members and X is in no other      *)
(* slot, for every size of the group.                                      *)
C3_AppendToArmedTabsGroup ==
    (/\ PanelClickWithSlotArmed
     /\ isTabsGroup(currentLayout[selection.position])
     /\ call.id \notin Range(currentLayout[selection.position].panels))
    => /\ call.emitted
       /\ isTabsGroup(call.layout[selection.position])
       /\ call.layout[selection.position].panels =
              Append(currentLayout[selection.position].panels, call.id)
       /\ \A q \in Positions \ {selection.position} : call.id \notin SlotIds(call.layout[q])

(* C4 as stated: removing a panel that is in no slot of a layout the       *)
(* configurator can reach (a rendered layout) returns that layout.         *)
C4_RemoveAbsentIsNoOp ==
    call = NoCall =>
        \A id \in PanelIds :
            (\A p \in Positions : id \notin SlotIds(currentLayout[p]))
            => removePanelFromLayout(currentLayout, id) = currentLayout

(* C5: removePanel is idempotent: on every layout the configurator can     *)
(* reach (every rendered layout) and every id, removing the id twice       *)
(* equals removing it once.                                                *)
C5_RemoveIdempotent ==
    call = NoCall =>
        \A id \in PanelIds :
            removePanelFromLayout(removePanelFromLayout(currentLayout, id), id)
                = removePanelFromLayout(currentLayout, id)

(* C5 witness: an assignment has removed the armed panel from a group of   *)
(* two in another slot, which collapsed to the single remaining panel.     *)
C5_Witness ==
    /\ SlotClickWithPanelArmed
    /\ call.emitted
    /\ \E p \in Positions \ {call.position} :
           /\ isGroup(currentLayout[p])
           /\ Len(currentLayout[p].panels) = 2
           /\ selection.id \in Range(currentLayout[p].panels)
           /\ removePanelFromLayout(currentLayout, selection.id)[p] = call.layout[p]
           /\ call.layout[p].kind = "single"

(* C6: swapping two slots twice restores the layout, for every reachable   *)
(* (rendered) layout and every pair of positions, groups included.         *)
C6_SwapTwiceRestores ==
    call = NoCall =>
        \A a, b \in Positions :
            swapSlots(swapSlots(currentLayout, a, b), a, b) = currentLayout

(* C6 witness: two slots holding different groups have been swapped, and   *)
(* swapping the emitted layout back gives the layout the handler read.     *)
C6_Witness ==
    /\ SlotClickWithOtherSlotArmed
    /\ call.emitted
    /\ isGroup(currentLayout[selection.position])
    /\ isGroup(currentLayout[call.position])
    /\ call.layout # currentLayout
    /\ swapSlots(call.layout, selection.position, call.position) = currentLayout

(* C7: assigning panel X to a slot P that does not hold a tabs group hands *)
(* to onChange a layout with P = SinglePanel(X) and X in no other slot:    *)
(* the previous occupant of P is dropped.  Scenario 1: 'nav' assigned to   *)
(* 'right' in {nav, main, sidebar} gives {null, main, nav}.                *)
C7_AssignReplacesSlot ==
    /\ ((SlotClickWithPanelArmed \/ PanelClickWithSlotArmed)
        /\ ~isTabsGroup(currentLayout[AssignedSlot]))
       => /\ call.emitted
          /\ call.layout[AssignedSlot] = SinglePanel(AssignedPanel)
          /\ \A q \in Positions \ {AssignedSlot} :
                 AssignedPanel \notin SlotIds(call.layout[q])
    /\ ((SlotClickWithPanelArmed \/ PanelClickWithSlotArmed)
        /\ currentLayout = ScenarioLayout
        /\ AssignedPanel = "nav" /\ AssignedSlot = "right")
       => call.layout =
              [left |-> Empty, middle |-> SinglePanel("main"), right |-> SinglePanel("nav")]

(* C7 witness: scenario 1 has happened by a click on slot 'right' with     *)
(* 'nav' armed.                                                            *)
C7_Witness ==
    /\ SlotClickWithPanelArmed
    /\ currentLayout = ScenarioLayout
    /\ selection.id = "nav"
    /\ call.position = "right"
    /\ call.layout[call.position] = SinglePanel("nav")

(* C8 as stated: with slot P armed and holding a tabs group, a click on a  *)
(* catalog panel that gets appended leaves the selection at SlotArmed(P).  *)
C8_AppendKeepsSlotArmed ==
    (/\ PanelClickWithSlotArmed
     /\ call.emitted
     /\ isTabsGroup(currentLayout[selection.position])
     /\ isTabsGroup(call.layout[selection.position])
     /\ call.id \notin Range(currentLayout[selection.position].panels)
     /\ call.id \in Range(call.layout[selection.position].panels))
    => call.selection = selection

(* C9 as stated: with panel X armed, a click on any slot P applies the     *)
(* assignment and leaves no selection.                                     *)
C9_PanelArmedSlotClickGoesIdle ==
    SlotClickWithPanelArmed
    => /\ selection.id \in SlotIds(call.layout[call.position])
       /\ call.selection = NoSelection

(* C10: with slot P armed, a click on a different slot Q hands to onChange *)
(* exactly the layout with the values of P and Q exchanged and the third   *)
(* slot unchanged, and resets the selection.  Scenario 4: left and middle  *)
(* of {nav, main, sidebar} swapped gives {main, nav, sidebar}.             *)
C10_SecondSlotClickSwaps ==
    /\ SlotClickWithOtherSlotArmed
       => /\ call.emitted
          /\ call.layout[selection.position] = currentLayout[call.position]
          /\ call.layout[call.position] = currentLayout[selection.position]
          /\ \A r \in Positions \ {selection.position, call.position} :
                 call.layout[r] = currentLayout[r]
          /\ call.selection = NoSelection
    /\ (SlotClickWithOtherSlotArmed /\ currentLayout = ScenarioLayout
        /\ selection.position = "left" /\ call.position = "middle")
       => call.layout =
              [left |-> SinglePanel("main"), middle |-> SinglePanel("nav"),
               right |-> SinglePanel("sidebar")]

(* C10 witness: scenario 4 has happened. *)
C10_Witness ==
    /\ SlotClickWithOtherSlotArmed
    /\ currentLayout = ScenarioLayout
    /\ selection.position = "left"
    /\ call.position = "middle"
    /\ call.layout["left"] = SinglePanel("main")
    /\ call.selection = NoSelection

-----------------------------------------------------------------------------
(* Vocabulary of the properties of the ThreePanelLayout.  last is the step *)
(* that led to the state; in an action formula the unprimed variables are  *)
(* the state the step read.                                                *)

SomeAnimating == leftRightAnimating["left"] \/ leftRightAnimating["right"]

(* The sizes a Panel can report to onResize. *)
ReportedSizes(side) == {0, defaultSizes[side]} \cup DragSizes(side)

(* C12: while either outer panel animates, the drag-resize callback of a   *)
(* side (handleLeftResize, handleRightResize) changes nothing, whatever    *)
(* size it is called with, and a drag of a handle leaves the tracked sizes *)
(* as they are: the tracked size of an animating side is written by the    *)
(* animation only.                                                         *)
C12_NoDragResizeWhileAnimating ==
    [][/\ SomeAnimating =>
             \A side \in Sides : \A size \in ReportedSizes(side) :
                 handleResize(Rendered, side, size) = Rendered
       /\ (SomeAnimating /\ last'.op = "dragResize") =>
             leftRightSize' = leftRightSize
       /\ \A side \in Sides :
             (leftRightAnimating[side] /\ leftRightAnimating'[side]) =>
                 leftRightSize'[side] = leftRightSize[side]
      ]_allVars

(* C12 witness: the right handle has been dragged while only the left      *)
(* panel animates; the PanelGroup has the right panel at the dragged size  *)
(* and the tracked size is still the one before the drag.                  *)
C12_Witness ==
    /\ last.op = "dragResize"
    /\ last.side = "right"
    /\ leftRightAnimating["left"]
    /\ ~leftRightAnimating["right"]
    /\ groupLayout["right"] = minSizes["right"]
    /\ leftRightSize["right"] = defaultSizes["right"]

(* The step asks the side to collapse or expand: its button is clicked or  *)
(* props.collapsed has come to differ from its collapsed state.            *)
Requested(side) ==
    \/ last'.op = "toggle" /\ last'.side = side
    \/ last'.op = "collapsedProp" /\ last'.arg[side] # leftRightCollapsed[side]

(* The state the step reads makes the handlers of the side return at once. *)
Refused(side) ==
    isDragging \/ leftRightAnimating[side] \/ ~collapsiblePanels[side]

(* The events of the step's log that belong to the side. *)
SideEvents(log, side) ==
    {i \in 1..Len(log) : log[i].type \in {"notify", "requestFrame"} /\ log[i].side = side}

(* C13: a collapse, expand or toggle asked while a handle is dragged,      *)
(* while the side animates or for a side that is not collapsible is        *)
(* dropped: the side keeps collapsed, animating and size, no notification  *)
(* of the side fires and no frame is requested for it; when the step asks  *)
(* nothing else, both sides, the frame queue and the refs are unchanged    *)
(* and the step calls nothing.                                             *)
C13_RefusedRequestIsDropped ==
    [][\A side \in Sides :
          (Requested(side) /\ Refused(side)) =>
              /\ leftRightCollapsed'[side] = leftRightCollapsed[side]
              /\ leftRightAnimating'[side] = leftRightAnimating[side]
              /\ leftRightSize'[side] = leftRightSize[side]
              /\ SideEvents(last'.log, side) = {}
              /\ (~Requested(Other(side)) \/ Refused(Other(side))) =>
                     /\ last'.log = <<>>
                     /\ UNCHANGED <<leftRightCollapsed, leftRightAnimating, leftRightSize,
                                    isDragging, animationFrameRef, startTimeRef,
                                    frameCallbacks, groupLayout>>
      ]_allVars

(* C13 witness: the collapse button of an expanded side has been clicked   *)
(* during a drag and nothing has happened.                                 *)
C13_Witness ==
    /\ last.op = "toggle"
    /\ isDragging
    /\ last.log = <<>>
    /\ ~leftRightCollapsed[last.side]
    /\ ~leftRightAnimating[last.side]
    /\ frameCallbacks = <<>>

(* The step asks the side to collapse. *)
CollapseRequested(side) == Requested(side) /\ ~leftRightCollapsed[side]

(* The step has started the animation op of the side: the flags are set,   *)
(* the start notification has fired and a frame is requested.              *)
Started(side, op) ==
    /\ leftRightAnimating'[side]
    /\ leftRightCollapsed'[side] = (op = "collapse")
    /\ \E i \in 1..Len(last'.log) :
           last'.log[i] = [type |-> "notify", side |-> side, kind |-> op, phase |-> "start"]
    /\ \E i \in 1..Len(frameCallbacks') :
           /\ frameCallbacks'[i].side = side
           /\ frameCallbacks'[i].kind = "start"
           /\ frameCallbacks'[i].id = animationFrameRef'[side]

(* C14 as stated: a collapse asked of a side while the other side animates *)
(* has no effect.                                                          *)
C14_NoCollapseWhileOtherAnimates ==
    [][\A side \in Sides :
          (CollapseRequested(side) /\ leftRightAnimating[Other(side)]) =>
              /\ leftRightAnimating'[side] = leftRightAnimating[side]
              /\ leftRightCollapsed'[side] = leftRightCollapsed[side]
              /\ SideEvents(last'.log, side) = {}
      ]_allVars

(* C14 amended: a collapse asked of a side is accepted exactly when that   *)
(* side is not animating, no handle is dragged and the side is             *)
(* collapsible; the animation of the other side does not matter, and a     *)
(* collapse asked while the other side animates starts a second animation. *)
C14_CollapseAcceptedUnlessOwnSideBusy ==
    [][\A side \in Sides :
          CollapseRequested(side) =>
              IF Refused(side)
              THEN /\ leftRightAnimating'[side] = leftRightAnimating[side]
                   /\ SideEvents(last'.log, side) = {}
              ELSE Started(side, "collapse")
      ]_allVars

(* C14 witness: the collapse button of a side has been clicked while the   *)
(* animation of the other side was running, and the side animates too.     *)
C14_Witness ==
    /\ last.op = "toggle"
    /\ leftRightAnimating[last.side]
    /\ leftRightCollapsed[last.side]
    /\ leftRightAnimating[Other(last.side)]
    /\ \E i \in 1..Len(frameCallbacks) :
           frameCallbacks[i].side = Other(last.side) /\ frameCallbacks[i].kind = "animate"
    /\ \E i \in 1..Len(frameCallbacks) :
           frameCallbacks[i].side = last.side /\ frameCallbacks[i].kind = "start"
    /\ \E i \in 1..Len(last.log) :
           last.log[i] = [type |-> "notify", side |-> last.side,
                          kind |-> "collapse", phase |-> "start"]

(* The frame callbacks held for a side. *)
CallbacksOf(side) == {i \in 1..Len(frameCallbacks) : frameCallbacks[i].side = side}

(* C15: at any time a side has at most one frame callback waiting, the one *)
(* its animationFrameRef names, and it has one only while it animates.     *)
C15_OneAnimationLoopPerSide ==
    \A side \in Sides :
        /\ Cardinality(CallbacksOf(side)) <= 1
        /\ \A i \in CallbacksOf(side) :
               /\ frameCallbacks[i].id = animationFrameRef[side]
               /\ leftRightAnimating[side]

(* C15 witness: props.collapsed has asked an animating side to go the      *)
(* other way while the loops of both sides were waiting for their frame;   *)
(* each side still has its one callback.                                   *)
C15_Witness ==
    /\ last.op = "collapsedProp"
    /\ last.log = <<>>
    /\ \A side \in Sides :
           /\ Cardinality(CallbacksOf(side)) = 1
           /\ \A i \in CallbacksOf(side) : frameCallbacks[i].kind = "animate"

(* The sizes an animation writes for its panel in the step, as positions   *)
(* of the log: each applyLayout carries the size written before it.        *)
Writes(log) == {i \in 1..Len(log) : log[i].type = "applyLayout"}

(* The write moves the size strictly toward toSize. *)
StrictlyToward(write) ==
    IF write.toSize < write.fromSize THEN write.size < write.prev
    ELSE write.size > write.prev

(* The first write of its animation in the frame. *)
FirstOfFrame(log, i) ==
    \A j \in Writes(log) : (j < i) => log[j].side # log[i].side

(* The last write of its animation in the frame. *)
LastOfFrame(log, i) ==
    \A j \in Writes(log) : (j > i) => log[j].side # log[i].side

(* The animation of the side completes in the step. *)
Completes(log, side) ==
    \E j \in 1..Len(log) :
        log[j].type = "notify" /\ log[j].side = side /\ log[j].phase = "complete"

(* C16 as stated: the sizes an animation writes for its panel are strictly *)
(* monotonic from fromSize toward toSize (strictly decreasing from 20 in a *)
(* collapse from 20), and the last one is toSize.                          *)
C16_WritesStrictlyMonotonic ==
    \A i \in Writes(last.log) :
        /\ StrictlyToward(last.log[i])
        /\ (LastOfFrame(last.log, i) /\ Completes(last.log, last.log[i].side)) =>
               last.log[i].size = last.log[i].toSize

(* C16 amended: from frame to frame the size written moves strictly toward *)
(* toSize (fromSize # toSize): the first write of a frame is strictly      *)
(* beyond the write before it, starting from fromSize.  The completing     *)
(* frame writes toSize twice, applyLayout(newSize) at progress 1 and       *)
(* applyLayout(toSize), so the sequence of writes is monotonic, not        *)
(* strictly, and its last value is exactly toSize (0 for a collapse).      *)
C16_WritesMonotonicFinalRepeated ==
    \A i \in Writes(last.log) :
        LET write == last.log[i]
        IN  /\ (FirstOfFrame(last.log, i) /\ write.fromSize # write.toSize) =>
                   StrictlyToward(write)
            /\ ~FirstOfFrame(last.log, i) =>
                   /\ write.size = write.toSize
                   /\ write.prev = write.toSize
                   /\ Completes(last.log, write.side)
            /\ Completes(last.log, write.side) =>
                   /\ ~LastOfFrame(last.log, i) \/ ~FirstOfFrame(last.log, i)
                   /\ LastOfFrame(last.log, i) => write.size = write.toSize
            /\ IF write.toSize < write.fromSize
               THEN write.toSize <= write.size /\ write.size < write.fromSize
               ELSE write.fromSize <= write.size /\ write.size <= write.toSize

(* C16 witness: the completing frame of a collapse of the left panel from  *)
(* 20 that was at 10 has written 0 and 0.                                  *)
C16_Witness ==
    /\ last.op = "frame"
    /\ Completes(last.log, "left")
    /\ \E i, j \in Writes(last.log) :
           /\ i < j
           /\ last.log[i].side = "left" /\ last.log[j].side = "left"
           /\ last.log[i].fromSize = 20 * Scale /\ last.log[i].toSize = 0
           /\ last.log[i].prev = 10 * Scale
           /\ last.log[i].size = 0
           /\ last.log[j].prev = 0 /\ last.log[j].size = 0
    /\ leftRightSize["left"] = 0

(* The frame event of the callback that logged position i. *)
FrameOf(log, i) ==
    log[CHOOSE j \in 1..i :
            /\ log[j].type = "frame"
            /\ \A k \in (j + 1)..i : log[k].type # "frame"]

(* C17: the panel's collapse() is called by an animation frame only, in    *)
(* the frame at progress 1 of the animation of that panel, and only by a   *)
(* collapse animation, whose toSize is 0; never in an earlier frame and    *)
(* never by an expand animation.                                           *)
C17_NativeCollapseOnFinalFrameOnly ==
    \A i \in 1..Len(last.log) :
        last.log[i].type = "collapse" =>
            /\ last.op = "frame"
            /\ \E j \in 1..i : last.log[j].type = "frame"
            /\ FrameOf(last.log, i).side = last.log[i].side
            /\ FrameOf(last.log, i).elapsed = animationDuration
            /\ FrameOf(last.log, i).toSize = 0
            /\ FrameOf(last.log, i).op = "collapse"

(* C17 witness: the second frame of a collapse of the left panel, at       *)
(* progress 1, has called collapse() of the left panel.                    *)
C17_Witness ==
    /\ last.op = "frame"
    /\ last.arg = 1
    /\ \E i \in 1..Len(last.log) :
           /\ last.log[i] = [type |-> "collapse", side |-> "left"]
           /\ FrameOf(last.log, i).elapsed = animationDuration
    /\ groupLayout["left"] = 0
    /\ ~leftRightAnimating["left"]

(* The positions of the log where the notification fires. *)
Notified(log, side, kind, phase) ==
    {i \in 1..Len(log) :
        log[i] = [type |-> "notify", side |-> side, kind |-> kind, phase |-> phase]}

Kinds == {"collapse", "expand"}

(* The animation the side has started and not completed: the kind of the   *)
(* callback it waits for, "none" without one.                              *)
Pending(callbacks, side) ==
    IF \E i \in 1..Len(callbacks) : callbacks[i].side = side
    THEN callbacks[CHOOSE i \in 1..Len(callbacks) : callbacks[i].side = side].op
    ELSE "none"

(* C18: per side the notifications are well nested.  A Start fires only    *)
(* while no animation of the side is pending, once, and leaves that kind   *)
(* pending; the pending kind stays until a Complete; a Complete fires only *)
(* while an animation of its own kind is pending, once, and leaves none    *)
(* pending.                                                                *)
C18_NotificationsWellNested ==
    [][\A side \in Sides :
          /\ Cardinality(UNION {Notified(last'.log, side, k, ph) :
                                   k \in Kinds, ph \in {"start", "complete"}}) <= 1
          /\ \A kind \in Kinds :
                /\ Notified(last'.log, side, kind, "start") # {} =>
                       /\ Pending(frameCallbacks, side) = "none"
                       /\ ~leftRightAnimating[side]
                       /\ Pending(frameCallbacks', side) = kind
                       /\ leftRightAnimating'[side]
                /\ Notified(last'.log, side, kind, "complete") # {} =>
                       /\ Pending(frameCallbacks, side) = kind
                       /\ leftRightAnimating[side]
                       /\ Pending(frameCallbacks', side) = "none"
                       /\ ~leftRightAnimating'[side]
          /\ (\A kind \in Kinds, ph \in {"start", "complete"} :
                  Notified(last'.log, side, kind, ph) = {}) =>
                 /\ Pending(frameCallbacks', side) = Pending(frameCallbacks, side)
                 /\ leftRightAnimating'[side] = leftRightAnimating[side]
      ]_allVars

(* C18 witness: the expand of the right panel has completed in a frame in  *)
(* which the left panel, started later, goes on collapsing.                *)
C18_Witness ==
    /\ last.op = "frame"
    /\ Notified(last.log, "right", "expand", "complete") # {}
    /\ ~leftRightAnimating["right"]
    /\ Pending(frameCallbacks, "right") = "none"
    /\ Pending(frameCallbacks, "left") = "collapse"
    /\ leftRightAnimating["left"]

(* The layout mounted with the default props, in a browser that keeps      *)
(* delivering animation frames: a frame that stays requested is eventually *)
(* run.                                                                    *)
InitLayoutDefaults ==
    /\ tabGroup = NoTabGroup
    /\ sizeBeforeCollapse = NoHistory
    /\ panelGroupRef = TRUE
    /\ currentLayout = ScenarioLayout
    /\ selection = NoSelection
    /\ call = NoCall
    /\ MountedWithDefaults

(* The collapse buttons, the collapsed prop and the frames: the steps that  *)
(* start, refuse and run animations.                                       *)
NextLayoutFair ==
    \/ Toggle
    \/ CollapsedPropChange
    \/ AnimationFrame

SpecLayoutFair ==
    InitLayoutDefaults /\ [][NextLayoutFair]_allVars /\ WF_allVars(AnimationFrame)

(* C19: under delivered frames every started animation terminates: a side  *)
(* animating with a pending collapse or expand leads to a frame that fires *)
(* the Complete of that kind and leaves the side not animating.            *)
C19_AnimationTerminates ==
    \A side \in Sides : \A kind \in Kinds :
        (leftRightAnimating[side] /\ Pending(frameCallbacks, side) = kind)
            ~> (/\ ~leftRightAnimating[side]
                /\ last.op = "frame"
                /\ Notified(last.log, side, kind, "complete") # {})

(* C19 witness: the final frame of a collapse of the left panel has run at *)
(* progress 1.                                                             *)
C19_Witness ==
    /\ last.op = "frame"
    /\ Notified(last.log, "left", "collapse", "complete") # {}
    /\ \E i \in 1..Len(last.log) :
          /\ last.log[i].type = "frame"
          /\ last.log[i].side = "left"
          /\ last.log[i].elapsed >= animationDuration
    /\ ~leftRightAnimating["left"]
    /\ leftRightCollapsed["left"]

(* Both sides have a collapse in flight. *)
BothCollapsing ==
    \A side \in Sides :
        leftRightAnimating[side] /\ Pending(frameCallbacks, side) = "collapse"

(* C20 as stated: when the frame in which the concurrent collapses of both *)
(* sides complete has run, the layout of the PanelGroup has both outer     *)
(* panels at 0 and the controller has both sides collapsed with size 0.    *)
C20_ConcurrentCollapseEndsCollapsed ==
    [][(BothCollapsing /\ \A side \in Sides : ~leftRightAnimating'[side]) =>
           \A side \in Sides :
               /\ groupLayout'[side] = 0
               /\ leftRightCollapsed'[side]
               /\ leftRightSize'[side] = 0
      ]_allVars

-----------------------------------------------------------------------------
(* The layout mounted with the default props that keeps the history of the *)
(* sizes its collapses started from: collapse buttons, drags of the resize *)
(* handles and animation frames.                                           *)

InitRestore ==
    /\ tabGroup = NoTabGroup
    /\ sizeBeforeCollapse = EmptyHistory
    /\ panelGroupRef = TRUE
    /\ currentLayout = ScenarioLayout
    /\ selection = NoSelection
    /\ call = NoCall
    /\ MountedWithDefaults

NextRestore ==
    \/ Toggle
    \/ DragStart
    \/ DragResize
    \/ DragEnd
    \/ AnimationFrame

SpecRestore == InitRestore /\ [][NextRestore]_allVars

(* The frame that has just run has completed the expand of the side, and   *)
(* the side had been collapsed by its handler before.                      *)
RestoredBy(side) ==
    /\ last.op = "frame"
    /\ Notified(last.log, side, "expand", "complete") # {}
    /\ sizeBeforeCollapse.of[side].known

(* C21 as stated: when the expand that follows a collapse of a side has    *)
(* completed, the side's size is the size it had when the collapse         *)
(* started.                                                                *)
C21_ExpandRestoresSizeBeforeCollapse ==
    \A side \in Sides :
        RestoredBy(side) => leftRightSize[side] = sizeBeforeCollapse.of[side].size

(* C21 amended: when the expand that follows a collapse of a side has      *)
(* completed, the side's size is defaultSizes of the side, whatever size   *)
(* the collapse started from.                                              *)
C21_ExpandRestoresDefaultSize ==
    \A side \in Sides :
        RestoredBy(side) => leftRightSize[side] = defaultSizes[side]

(* C21 witness: the left panel, dragged to its minimum size, collapsed and *)
(* expanded, is at its default size.                                       *)
C21_Witness ==
    /\ RestoredBy("left")
    /\ sizeBeforeCollapse.of["left"].size = minSizes["left"]
    /\ leftRightSize["left"] = defaultSizes["left"]
    /\ groupLayout["left"] = defaultSizes["left"]

(* The positions of the log where onPanelResize is called. *)
PanelResizeReports(log) == {i \in 1..Len(log) : log[i].type = "onPanelResize"}

(* C22: a drag that ends calls onPanelResize once, with left and right the *)
(* leftSize and rightSize of the controller and middle what they leave of  *)
(* 100, so that the three add up to 100.                                   *)
C22_DragEndReportsCommittedSizes ==
    last.op = "dragEnd" =>
        /\ Cardinality(PanelResizeReports(last.log)) = 1
        /\ \A i \in PanelResizeReports(last.log) :
              /\ last.log[i].left = leftRightSize["left"]
              /\ last.log[i].right = leftRightSize["right"]
              /\ last.log[i].middle = 100 * Scale - leftRightSize["left"] - leftRightSize["right"]
              /\ last.log[i].left + last.log[i].middle + last.log[i].right = 100 * Scale

(* C22 witness: a drag ends that has brought the left panel to its minimum *)
(* size; the report has it.                                                *)
C22_Witness ==
    /\ last.op = "dragEnd"
    /\ leftRightSize["left"] = minSizes["left"]
    /\ leftRightSize["right"] = defaultSizes["right"]
    /\ \E i \in PanelResizeReports(last.log) :
          /\ last.log[i].left = minSizes["left"]
          /\ last.log[i].middle = 100 * Scale - minSizes["left"] - defaultSizes["right"]

(* The frame that has just run has completed an animation of the side. *)
Completed(side) ==
    /\ last.op = "frame"
    /\ \E kind \in Kinds : Notified(last.log, side, kind, "complete") # {}

(* C23 as stated: the frame that completes a collapse or an expand calls   *)
(* onPanelResize with the sizes the controller has committed: left and     *)
(* right its leftSize and rightSize, middle the rest of 100.               *)
C23_CompletionReportsSizes ==
    \A side \in Sides :
        Completed(side) =>
            \E i \in PanelResizeReports(last.log) :
                /\ last.log[i].left = leftRightSize["left"]
                /\ last.log[i].right = leftRightSize["right"]
                /\ last.log[i].middle =
                       100 * Scale - leftRightSize["left"] - leftRightSize["right"]

-----------------------------------------------------------------------------
(* A TabGroup mounted by a host with some panelIds, panels and             *)
(* config.defaultActiveTab; the user clicks tabs and the host renders it   *)
(* with other panelIds and panels.                                         *)

(* The largest config.defaultActiveTab the hosts pass. *)
MaxDefaultTab == 3

(* config.defaultActiveTab is a number nothing checks when it is written:  *)
(* the indices of tabs, indices past the last tab, and -1.                 *)
DefaultActiveTabs == (0 - 1)..MaxDefaultTab

(* panelIds: panel ids, each at most once. *)
TabLists == UNION {SeqsOver(PanelIds, n) : n \in 0..NumPanels}

InitTabGroup ==
    /\ sizeBeforeCollapse = NoHistory
    /\ panelGroupRef = TRUE
    /\ currentLayout = ScenarioLayout
    /\ selection = NoSelection
    /\ call = NoCall
    /\ MountedWithDefaults
    /\ \E ids \in TabLists, available \in SUBSET PanelIds,
          defaultActiveTab \in DefaultActiveTabs :
           tabGroup = [panelIds |-> ids, panels |-> available,
                       activeTabIndex |-> defaultActiveTab]

(* onClick={() => setActiveTabIndex(index)} of a rendered tab *)
TabClick ==
    /\ \E index \in 0..(Len(tabPanels(tabGroup)) - 1) :
           tabGroup' = [tabGroup EXCEPT !.activeTabIndex = index]
    /\ UNCHANGED <<vars, ctlVars>>

(* The host renders the TabGroup with other panelIds or panels; the state  *)
(* activeTabIndex stays.                                                   *)
TabGroupPropsChange ==
    /\ \E ids \in TabLists, available \in SUBSET PanelIds :
           /\ <<ids, available>> # <<tabGroup.panelIds, tabGroup.panels>>
           /\ tabGroup' = [tabGroup EXCEPT !.panelIds = ids, !.panels = available]
    /\ UNCHANGED <<vars, ctlVars>>

NextTabGroup ==
    \/ TabClick
    \/ TabGroupPropsChange

SpecTabGroup == InitTabGroup /\ [][NextTabGroup]_allVars

(* C24 as stated: whenever at least one tab resolves, the index the        *)
(* TabGroup treats as active is one of 0 .. n-1.                           *)
C24_ActiveIndexInRange ==
    Len(tabPanels(tabGroup)) >= 1 =>
        safeActiveIndex(tabGroup) \in 0..(Len(tabPanels(tabGroup)) - 1)

-----------------------------------------------------------------------------
(* The members of the group are distinct. *)
DuplicateFree(slot) == Cardinality(Range(slot.panels)) = Len(slot.panels)

(* C25: no group of the rendered layout, and none of a layout a handler    *)
(* has computed, holds a panel id twice (the initial groups hold none      *)
(* twice).                                                                 *)
C25_NoDuplicateInGroup ==
    \A p \in Positions :
        /\ isGroup(currentLayout[p]) => DuplicateFree(currentLayout[p])
        /\ (call # NoCall /\ isGroup(call.layout[p])) => DuplicateFree(call.layout[p])

(* C25 witness: an armed panel that was a member of another group has been *)
(* appended to a tabs group that did not hold it.                          *)
C25_Witness ==
    /\ SlotClickWithPanelArmed
    /\ call.emitted
    /\ isTabsGroup(currentLayout[call.position])
    /\ isTabsGroup(call.layout[call.position])
    /\ call.layout[call.position].panels =
           Append(currentLayout[call.position].panels, selection.id)
    /\ \E q \in Positions \ {call.position} :
          /\ isGroup(currentLayout[q])
          /\ selection.id \in Range(currentLayout[q].panels)

(* The call clicked the slot that is armed. *)
SlotClickOnArmedSlot ==
    call.op = "slotClick" /\ selection.type = "slot" /\ selection.position = call.position

(* C26: a click on the armed slot does nothing: onChange is not called,    *)
(* the layout is the rendered one and the slot stays armed.                *)
C26_ClickOnArmedSlotIsNoOp ==
    SlotClickOnArmedSlot =>
        /\ ~call.emitted
        /\ call.layout = currentLayout
        /\ call.selection = SlotSelected(call.position)

(* C26 witness: the armed slot, holding a group, has been clicked again.   *)
C26_Witness ==
    /\ SlotClickOnArmedSlot
    /\ isGroup(currentLayout[call.position])
    /\ ~call.emitted
    /\ call.selection = selection

(* The call assigned a panel to a tabs group that already holds it, the    *)
(* panel armed first and the slot clicked ...                              *)
SlotClickReAddsMember ==
    /\ SlotClickWithPanelArmed
    /\ isTabsGroup(currentLayout[call.position])
    /\ selection.id \in Range(currentLayout[call.position].panels)

(* ... or the slot armed first and the panel clicked.                      *)
PanelClickReAddsMember ==
    /\ PanelClickWithSlotArmed
    /\ isTabsGroup(currentLayout[selection.position])
    /\ call.id \in Range(currentLayout[selection.position].panels)

(* C27: assigning a panel to a tabs group that already contains it does    *)
(* not call onChange and leaves the layout as it is, in either order of    *)
(* arming.                                                                 *)
C27_ReAddingMemberIsNoOp ==
    (SlotClickReAddsMember \/ PanelClickReAddsMember) =>
        /\ ~call.emitted
        /\ call.layout = currentLayout

(* C27 witness: with a slot holding a tabs group of two panels armed, its  *)
(* second member has been clicked in the catalog.                          *)
C27_Witness ==
    /\ PanelClickReAddsMember
    /\ Len(currentLayout[selection.position].panels) = 2
    /\ call.id = currentLayout[selection.position].panels[2]
    /\ call.layout = currentLayout

(* C28: the clear button of a slot calls onChange with a layout in which   *)
(* that slot is empty and the other two slots are as rendered, and the     *)
(* selection is reset, whatever it was.                                    *)
C28_ClearEmptiesSlotAndResets ==
    call.op = "clear" =>
        /\ call.emitted
        /\ call.layout[call.position] = Empty
        /\ \A q \in Positions \ {call.position} : call.layout[q] = currentLayout[q]
        /\ call.selection = NoSelection

(* C28 witness: a slot has been cleared while another slot was armed and   *)
(* a third held a group.                                                   *)
C28_Witness ==
    /\ call.op = "clear"
    /\ selection.type = "slot"
    /\ selection.position # call.position
    /\ \E q \in Positions \ {call.position} : isGroup(currentLayout[q])
    /\ call.selection = NoSelection
    /\ call.layout[call.position] = Empty

(* The members the remove button leaves, in their order. *)
Remaining == SelectSeq(currentLayout[call.position].panels, LAMBDA id : id # call.id)

(* C29: the remove button of a member of the tabs group at a position      *)
(* calls onChange with the group without that member, the others in their  *)
(* order: an empty slot when none remains, the single panel when one       *)
(* remains.  The other slots and the selection are unchanged, and on a     *)
(* slot that is not a tabs group onChange is not called.                   *)
C29_RemoveFromGroup ==
    call.op = "removeFromGroup" =>
        /\ call.selection = selection
        /\ \A q \in Positions \ {call.position} : call.layout[q] = currentLayout[q]
        /\ IF isTabsGroup(currentLayout[call.position])
           THEN /\ call.emitted
                /\ Len(Remaining) = 0 => call.layout[call.position] = Empty
                /\ Len(Remaining) = 1 =>
                       call.layout[call.position] = SinglePanel(Remaining[1])
                /\ Len(Remaining) > 1 =>
                       call.layout[call.position] =
                           Group("tabs", Remaining, currentLayout[call.position].config)
           ELSE /\ ~call.emitted
                /\ call.layout = currentLayout

(* C29 witness: the middle member of a tabs group of three has been        *)
(* removed while a panel was armed, leaving the first and the third.       *)
C29_Witness ==
    /\ call.op = "removeFromGroup"
    /\ isTabsGroup(currentLayout[call.position])
    /\ Len(currentLayout[call.position].panels) = 3
    /\ call.id = currentLayout[call.position].panels[2]
    /\ selection.type = "panel"
    /\ call.selection = selection
    /\ call.layout[call.position].panels =
           <<currentLayout[call.position].panels[1], currentLayout[call.position].panels[3]>>

(* C30: the tab-mode toggle of a slot holding a tabs group leaves the      *)
(* group's first member as a single panel (an empty slot if the group had  *)
(* none); on any other slot it leaves a tabs group whose members are       *)
(* exactly what the slot held.  The other slots and the selection are      *)
(* unchanged, and a second toggle on a slot that held a single panel or    *)
(* nothing gives the original slot back.                                   *)
C30_ToggleGroupMode ==
    call.op = "toggle" =>
        LET before == currentLayout[call.position]
            after == call.layout[call.position]
        IN  /\ call.selection = selection
            /\ \A q \in Positions \ {call.position} : call.layout[q] = currentLayout[q]
            /\ IF isTabsGroup(before)
               THEN after = IF Len(before.panels) > 0
                            THEN SinglePanel(before.panels[1]) ELSE Empty
               ELSE /\ isTabsGroup(after)
                    /\ after.panels = getPanelIdsFromSlot(before)
            /\ before.kind \in {"empty", "single"} =>
                   toggleTabMode(call.layout, call.selection, call.position).layout
                       = currentLayout

-----------------------------------------------------------------------------
(* The step that has just run has fired the notification of the side. *)
Fired(side, kind, phase) == Notified(last.log, side, kind, phase) # {}

(* C31: when the Complete of a collapse has fired the side has size 0, is  *)
(* collapsed and is not animating; when the Complete of an expand has      *)
(* fired the side has its default size, is not collapsed and is not        *)
(* animating; when a Start has fired the side has the flags of its         *)
(* animation and the frame that is to start the animation has not run.     *)
C31_FlagsAtStartAndCompletion ==
    \A side \in Sides :
        /\ Fired(side, "collapse", "complete") =>
               /\ leftRightSize[side] = 0
               /\ leftRightCollapsed[side]
               /\ ~leftRightAnimating[side]
        /\ Fired(side, "expand", "complete") =>
               /\ leftRightSize[side] = defaultSizes[side]
               /\ ~leftRightCollapsed[side]
               /\ ~leftRightAnimating[side]
        /\ \A kind \in Kinds :
               Fired(side, kind, "start") =>
                   /\ leftRightAnimating[side]
                   /\ leftRightCollapsed[side] = (kind = "collapse")
                   /\ last.op # "frame"
                   /\ \E i \in 1..Len(frameCallbacks) :
                          frameCallbacks[i].side = side /\ frameCallbacks[i].kind = "start"

(* The animation of the side that is running when the step begins. *)
Running(side) ==
    frameCallbacks[CHOOSE i \in 1..Len(frameCallbacks) :
                       frameCallbacks[i].side = side /\ frameCallbacks[i].kind = "animate"]

(* The sizes the animation cb writes in a frame that comes at elapsed. *)
Interpolated(cb, elapsed) ==
    {newSize(cb.fromSize, cb.toSize, elapsed)}
        \cup (IF elapsed >= animationDuration THEN {cb.toSize} ELSE {})

StartedCallback(side) ==
    frameCallbacks'[CHOOSE i \in 1..Len(frameCallbacks') : frameCallbacks'[i].side = side]

(* At position i of the step's log the animation of the side is in flight: *)
(* the side was animating when the step began, or its Start has fired      *)
(* earlier in the step.                                                    *)
InFlightAt(side, i) ==
    \/ leftRightAnimating[side]
    \/ \E j \in 1..(i - 1) : \E kind \in Kinds :
           j \in Notified(last'.log, side, kind, "start")

(* C34: a collapse or expand that starts with the other side locked starts *)
(* while the other side's animation is not in flight, and locks it at a    *)
(* size that is not 0.                                                     *)
C34_LockedSiblingNotAnimating ==
    [][\A side \in Sides : \A kind \in Kinds :
          \A i \in Notified(last'.log, side, kind, "start") :
              StartedCallback(side).locked > 0 =>
                  /\ ~InFlightAt(Other(side), i)
                  /\ leftRightSize[Other(side)] > 0
      ]_allVars

-----------------------------------------------------------------------------
(* The layout mounted with the default props whose panelGroupRef.current   *)
(* is null, in a browser that keeps delivering animation frames.           *)

InitDegraded ==
    /\ tabGroup = NoTabGroup
    /\ sizeBeforeCollapse = NoHistory
    /\ panelGroupRef = FALSE
    /\ currentLayout = ScenarioLayout
    /\ selection = NoSelection
    /\ call = NoCall
    /\ MountedWithDefaults

SpecDegraded ==
    InitDegraded /\ [][NextLayoutFair]_allVars /\ WF_allVars(AnimationFrame)

(* The calls on panels and on the PanelGroup in the log. *)
PanelCalls(log) ==
    {i \in 1..Len(log) : log[i].type \in {"resize", "collapse", "setLayout", "TypeError"}}

(* Every started animation leads to the frame that fires its Complete and  *)
(* leaves the side not animating.                                          *)
RunsToCompletion ==
    \A side \in Sides : \A kind \in Kinds :
        (leftRightAnimating[side] /\ Pending(frameCallbacks, side) = kind)
            ~> (/\ ~leftRightAnimating[side]
                /\ last.op = "frame"
                /\ Fired(side, kind, "complete"))

-----------------------------------------------------------------------------
(* The call has assigned a panel to a slot and handed a layout to          *)
(* onChange.                                                               *)
Assigned ==
    (SlotClickWithPanelArmed \/ PanelClickWithSlotArmed) /\ call.emitted

(* C36: an assignment of panel X to slot P leaves every other slot that    *)
(* does not hold X as it was rendered, tabs groups included.               *)
C36_AssignmentLeavesOtherSlots ==
    Assigned =>
        \A q \in Positions \ {AssignedSlot} :
            AssignedPanel \notin SlotIds(currentLayout[q]) =>
                call.layout[q] = currentLayout[q]

-----------------------------------------------------------------------------
(* The positions of the log where an onComplete asserts the size of the    *)
(* other side.                                                             *)
Asserts(log) == {i \in 1..Len(log) : log[i].type = "assert"}

(* C37: the onComplete of a side resizes the other side, to a size above   *)
(* 0, only if the other side is at that moment not collapsed and not       *)
(* animating: a collapsing or collapsed side is never resized back.        *)
C37_SiblingAssertedOnlyWhenAtRest ==
    \A i \in Asserts(last.log) :
        /\ last.log[i].size > 0
        /\ ~last.log[i].collapsed
        /\ ~last.log[i].animating

-----------------------------------------------------------------------------
(* The host has just rendered the layout with props.collapsed of the       *)
(* collapsible side at value, and the side's collapsed state is not value. *)
PropAhead(side, value) ==
    /\ last.op = "collapsedProp"
    /\ last.arg[side] = value
    /\ collapsiblePanels[side]
    /\ leftRightCollapsed[side] # value

(* C38: when the host has changed props.collapsed of a side to a value     *)
(* that differs from the side's collapsed state, the side eventually has   *)
(* that collapsed state, also when the change came while the side was      *)
(* animating.                                                              *)
C38_CollapsedPropEventuallyHonoured ==
    \A side \in Sides : \A value \in BOOLEAN :
        PropAhead(side, value) ~> (leftRightCollapsed[side] = value)

-----------------------------------------------------------------------------
(* C39: in every state of the controller a side that is collapsed and not  *)
(* animating has size 0.                                                   *)
C39_CollapsedAtRestHasSizeZero ==
    \A side \in Sides :
        (leftRightCollapsed[side] /\ ~leftRightAnimating[side]) => leftRightSize[side] = 0

=============================================================================
